---- MODULE Spec2Model ----
(***************************************************************************)
(* A model of backend/server.py: the FastAPI handlers of the mini course   *)
(* generator (register, login, generate, save, list, get, submit quiz,     *)
(* quiz results) over the three MongoDB collections users, courses and     *)
(* quiz_results.                                                           *)
(*                                                                         *)
(* Time is counted in ticks, TicksPerSecond ticks to the second, because   *)
(* create_token stores a fractional expiry (timestamp() + 86400) which the *)
(* JWT library truncates to whole seconds when it validates it.            *)
(***************************************************************************)
EXTENDS Integers, Sequences, FiniteSets, TLC

VARIABLES
    users,          \* db.users: the documents in insertion order
    courses,        \* db.courses: the documents in insertion order
    quiz_results,   \* db.quiz_results: the documents in insertion order
    now,            \* datetime.now(timezone.utc), in ticks
    reg,            \* the register requests in flight, one per worker
    issued,         \* history: every token create_token returned, with its issuance
    lastGenerated,  \* the client's copy of the last Course that generate returned
    savedGen,       \* history: the generated Courses their owner then saved
    resp            \* the response of the last handler that returned

vars == <<users, courses, quiz_results, now, reg, issued, lastGenerated, savedGen, resp>>

----------------------------------------------------------------------------
(* Bounds of the model *)

TicksPerSecond == 2
MaxUsers == 3
MaxTokens == 2
MaxSmallSteps == 2

(* Program constants *)

TOKEN_TTL_SECONDS == 86400

Workers == {"w1", "w2"}
Usernames == {"alice", "bob"}
Passwords == {"pw1"}
WrongPassword == "guess"
Emails == {"a@x.org"}
Salts == {"s1"}

JWT_SECRET == "JWT_SECRET"
OtherKey == "attacker-key"

\* Python's None where a user identifier is expected; identifiers are positive.
None == 0

----------------------------------------------------------------------------
(* Helper functions *)

\* bcrypt.hashpw(password, gensalt()): a salted one-way digest.
hash_password(password, salt) == [salt |-> salt, digest |-> <<"bcrypt", salt, password>>]

\* bcrypt.checkpw: re-hash under the stored salt and compare.
verify_password(password, hashed) == hash_password(password, hashed.salt) = hashed

TokenTtlTicks == TOKEN_TTL_SECONDS * TicksPerSecond

\* The HS256 signature of a payload under a key: equal only for the same key
\* and the same payload.
Sign(key, user_id, exp) == <<"HS256", key, user_id, exp>>

\* A plausible slip: the lifetime added in seconds to a clock in ticks.
create_token_short(user_id, t) ==
    [kind |-> "jwt", user_id |-> user_id, exp |-> t + TOKEN_TTL_SECONDS,
     sig |-> Sign(JWT_SECRET, user_id, t + TOKEN_TTL_SECONDS)]

\* jwt.encode({'user_id': user_id, 'exp': now + 86400}, JWT_SECRET)
create_token(user_id, t) ==
    [kind |-> "jwt", user_id |-> user_id, exp |-> t + TokenTtlTicks,
     sig |-> Sign(JWT_SECRET, user_id, t + TokenTtlTicks)]

NoSig == <<>>
NoCredentials == [kind |-> "none", user_id |-> None, exp |-> 0, sig |-> NoSig]
Malformed == [kind |-> "malformed", user_id |-> None, exp |-> 0, sig |-> NoSig]

\* jwt.decode's expiry test: int(payload['exp']) <= now, the expiry cut to
\* whole seconds and the clock not.
JwtExpired(exp, t) == (exp \div TicksPerSecond) * TicksPerSecond <= t

get_current_user(credentials, t) ==
    IF credentials.kind = "none" THEN None
    ELSE IF credentials.kind # "jwt" THEN None            \* DecodeError
    ELSE IF credentials.sig # Sign(JWT_SECRET, credentials.user_id, credentials.exp)
         THEN None                                         \* InvalidSignatureError
    ELSE IF JwtExpired(credentials.exp, t) THEN None      \* ExpiredSignatureError
    ELSE credentials.user_id

\* db.<collection>.find_one(filter): the first matching document, or none.
Matching(coll, P(_)) == {i \in 1..Len(coll) : P(coll[i])}
Min(S) == CHOOSE x \in S : \A y \in S : x <= y

----------------------------------------------------------------------------
(* Responses *)

NoBody == <<>>

NoRequest == [none |-> TRUE]
NoLlm == [called |-> FALSE]

\* What a handler returned, and what it used on the way: the collection reads
\* and writes and the calls of the external service.  req is the request it
\* answered (without the credential), user the identifier the credential
\* resolved to, llm what the external service answered when it was called.
Response(op, status, user, token, body, reads, writes, llm) ==
    [op |-> op, req |-> NoRequest, status |-> status, detail |-> "", user |-> user,
     token |-> token, body |-> body, dbReads |-> reads, dbWrites |-> writes,
     llmCalls |-> llm, llm |-> NoLlm]

Answering(req, response) == [response EXCEPT !.req = req]

\* raise HTTPException(status_code=status, detail=detail)
Failure(op, status, detail, user, reads, writes, llm) ==
    [op |-> op, req |-> NoRequest, status |-> status, detail |-> detail, user |-> user,
     token |-> NoCredentials, body |-> NoBody,
     dbReads |-> reads, dbWrites |-> writes, llmCalls |-> llm, llm |-> NoLlm]

----------------------------------------------------------------------------
(* Authentication endpoints *)

IdleReg == [pc |-> "idle", data |-> <<>>, existing |-> FALSE, seen |-> 0]

\* A plausible slip: the lookup made on the wrong field.
UsernameExistsByEmail(username) == Matching(users, LAMBDA d : d.email = username) # {}

\* existing_user = await db.users.find_one({"username": user_data.username})
UsernameExists(username) == Matching(users, LAMBDA d : d.username = username) # {}

\* register, up to the await of find_one: the lookup's answer is taken now,
\* the rest of the handler runs when the worker is resumed.
RegisterFind(w, username, email, password) ==
    /\ reg[w].pc = "idle"
    /\ reg' = [reg EXCEPT ![w] =
                 [pc |-> "found",
                  data |-> [username |-> username, email |-> email, password |-> password],
                  existing |-> UsernameExists(username),
                  seen |-> Len(users)]]     \* history: the users stored at the call
    /\ UNCHANGED <<users, courses, quiz_results, now, issued, lastGenerated, savedGen, resp>>

\* register, after find_one: Conflict, or the insert and the token.
RegisterFinish(w, salt) ==
    /\ reg[w].pc = "found"
    /\ reg' = [reg EXCEPT ![w] = IdleReg]
    /\ IF reg[w].existing
       THEN /\ resp' = Answering(reg[w].data, Failure("register", 400, "Username already exists", None, 1, 0, 0))
            /\ UNCHANGED <<users, issued>>
       ELSE LET user == [id |-> Len(users) + 1,
                         username |-> reg[w].data.username,
                         email |-> reg[w].data.email,
                         password_hash |-> hash_password(reg[w].data.password, salt)]
                token == create_token(user.id, now)
            IN /\ Len(users) < MaxUsers
               /\ Cardinality(issued \cup {[tok |-> token, at |-> now, for |-> user.id]}) <= MaxTokens
               /\ users' = Append(users, user)
               /\ issued' = issued \cup {[tok |-> token, at |-> now, for |-> user.id]}
               /\ resp' = Answering(reg[w].data,
                                     Response("register", 200, user.id, token,
                                              [id |-> user.id, username |-> user.username,
                                               email |-> user.email],
                                              1, 1, 0))
    /\ UNCHANGED <<courses, quiz_results, now, lastGenerated, savedGen>>

Login(username, password) ==
    LET found == Matching(users, LAMBDA d : d.username = username)
        user_doc == users[Min(found)]
        req == [username |-> username, password |-> password]
    IN /\ IF found = {} \/ ~verify_password(password, user_doc.password_hash)
          THEN /\ resp' = Answering(req, Failure("login", 401, "Invalid credentials", None, 1, 0, 0))
               /\ UNCHANGED issued
          ELSE LET token == create_token(user_doc.id, now)
                   entry == [tok |-> token, at |-> now, for |-> user_doc.id]
               IN /\ Cardinality(issued \cup {entry}) <= MaxTokens
                  /\ issued' = issued \cup {entry}
                  /\ resp' = Answering(req,
                                        Response("login", 200, user_doc.id, token,
                                                 [id |-> user_doc.id,
                                                  username |-> user_doc.username,
                                                  email |-> user_doc.email],
                                                 1, 0, 0))
       /\ UNCHANGED <<users, courses, quiz_results, now, reg, lastGenerated, savedGen>>

----------------------------------------------------------------------------
(* The clock *)

AdvanceSteps == {1, TokenTtlTicks - 1}
Horizon == TokenTtlTicks + MaxSmallSteps

\* The clock is observed only near the instants that matter: just after the
\* start, and around one token lifetime later.
Advance(d) ==
    /\ now + d <= Horizon
    /\ d = 1 => (now + 1) % TokenTtlTicks <= MaxSmallSteps
    /\ now' = now + d
    /\ UNCHANGED <<users, courses, quiz_results, reg, issued, lastGenerated, savedGen, resp>>

----------------------------------------------------------------------------

NoCourse == [id |-> 0]

InitAuth ==
    /\ users = <<>>
    /\ courses = <<>>
    /\ quiz_results = <<>>
    /\ now = 0
    /\ reg = [w \in Workers |-> IdleReg]
    /\ issued = {}
    /\ lastGenerated = NoCourse
    /\ savedGen = {}
    /\ resp = Response("none", 0, None, NoCredentials, NoBody, 0, 0, 0)

NextAuth ==
    \/ \E w \in Workers, u \in Usernames, e \in Emails, p \in Passwords : RegisterFind(w, u, e, p)
    \/ \E w \in Workers, s \in Salts : RegisterFinish(w, s)
    \/ \E u \in Usernames, p \in Passwords \cup {WrongPassword} : Login(u, p)
    \/ \E d \in AdvanceSteps : Advance(d)

SpecAuth == InitAuth /\ [][NextAuth]_vars

----------------------------------------------------------------------------
(* Claims about authentication, checked under SpecAuth *)

\* C1: at every reachable state no two stored user documents have the same
\* username, also when Register requests interleave.
C1_UniqueUsernames ==
    \A i, j \in 1..Len(users) : i # j => users[i].username # users[j].username

\* A worker's register request returns in this step.
RegisterReturns(w) == reg[w].pc = "found" /\ reg'[w].pc = "idle"

\* The username of w's request was stored when the request was made.
StoredAtCall(w) == \E i \in 1..reg[w].seen : users[i].username = reg[w].data.username

\* C2: a Register called with a username that a completed earlier Register
\* stored fails with Conflict (status 400, "Username already exists"), issues
\* no token and leaves the users collection unchanged.
C2_DuplicateRegisterConflict ==
    [][\A w \in Workers :
          (RegisterReturns(w) /\ StoredAtCall(w)) =>
             /\ resp'.op = "register" /\ resp'.status = 400
             /\ resp'.token = NoCredentials
             /\ issued' = issued
             /\ users' = users]_vars

C2_Witness ==
    /\ resp.op = "register" /\ resp.status = 400
    /\ Len(users) >= 1

\* The expiry a token issued at time at carries, and that expiry cut to whole
\* seconds.
ExpiryOf(at) == at + TokenTtlTicks
WholeSecond(t) == (t \div TicksPerSecond) * TicksPerSecond

\* The token with its payload changed and its signature kept, the token
\* signed under another key, and a credential that is no token at all.
TamperedForms(tok) ==
    {[tok EXCEPT !.user_id = u] : u \in (1..MaxUsers) \ {tok.user_id}}
    \cup {[tok EXCEPT !.exp = tok.exp + TokenTtlTicks]}
    \cup {[tok EXCEPT !.sig = Sign(OtherKey, tok.user_id, tok.exp)]}
    \cup {Malformed}

\* C3 as stated: the token of a successful Login or Register for u resolves
\* to u at every time before issuance + 24 hours.
C3_ValidUntilExactExpiry ==
    \A e \in issued : now < ExpiryOf(e.at) => get_current_user(e.tok, now) = e.for

\* C3 as amended: the token resolves to u at every time before the whole
\* second that issuance + 24 hours falls in; once the expiry has passed, or
\* when the signature does not verify, it resolves to none.
C3_TokenResolution ==
    \A e \in issued :
        /\ now < WholeSecond(ExpiryOf(e.at)) => get_current_user(e.tok, now) = e.for
        /\ now > ExpiryOf(e.at) => get_current_user(e.tok, now) = None
        /\ \A t \in TamperedForms(e.tok) : get_current_user(t, now) = None

C3_Witness ==
    /\ resp.op = "login" /\ resp.status = 200
    /\ \E e \in issued : /\ e.tok = resp.token
                          /\ now > e.at
                          /\ get_current_user(e.tok, now) = e.for
    /\ \E e \in issued : now > ExpiryOf(e.at) /\ get_current_user(e.tok, now) = None

----------------------------------------------------------------------------
(* The text of the external service's response.  A text is a sequence of     *)
(* pieces: the code-fence marker, the word json, white space, prose, and     *)
(* pieces that each stand for one complete JSON text.                        *)

\* The three backquotes that open or close a markdown code block.
Fence == "<fence>"
JsonWord == "json"
Space == " "

PyNone == "<None>"
EmptyDict == [k \in {} |-> PyNone]

\* The JSON texts the service may send, by name, and what json.loads makes of
\* each.  Any other piece (prose, a truncated text) is no JSON text.
JsonTexts == {"J_full", "J_sparse", "J_empty", "J_array"}

JsonValue(piece) ==
    CASE piece = "J_full" ->
           [title |-> "Intro", description |-> "About it",
            lessons |-> << [title |-> "L1", content |-> "c1", code_examples |-> "x = 1",
                            video_queries |-> << <<"a", " ", "b">>, <<"c">> >>],
                           [title |-> "L2", content |-> "c2"] >>,
            quizzes |-> << [question |-> "q1", options |-> <<"A", "B">>,
                            correct_answer |-> "A", explanation |-> "e1"],
                           [question |-> "q2", options |-> <<"A", "B">>,
                            correct_answer |-> "B", explanation |-> "e2"] >>]
      [] piece = "J_sparse" ->
           [lessons |-> << [content |-> "c1", video_queries |-> <<>>] >>,
            quizzes |-> << [correct_answer |-> "B"] >>]
      [] piece = "J_empty" -> EmptyDict
      [] OTHER -> <<>>

\* Whether the parsed value is a JSON object (a dict, with keys()).
IsJsonObject(piece) == piece \in {"J_full", "J_sparse", "J_empty"}

\* str.strip()
RECURSIVE LStrip(_)
LStrip(text) == IF text # <<>> /\ Head(text) = Space THEN LStrip(Tail(text)) ELSE text
RECURSIVE RStrip(_)
RStrip(text) ==
    IF text # <<>> /\ text[Len(text)] = Space THEN RStrip(SubSeq(text, 1, Len(text) - 1)) ELSE text
Strip(text) == RStrip(LStrip(text))

StartsWith(text, prefix) ==
    Len(text) >= Len(prefix) /\ SubSeq(text, 1, Len(prefix)) = prefix
EndsWith(text, suffix) ==
    Len(text) >= Len(suffix) /\ SubSeq(text, Len(text) - Len(suffix) + 1, Len(text)) = suffix
Drop(text, n) == SubSeq(text, n + 1, Len(text))

\* A plausible slip: the closing marker is left in place.
CleanResponseKeepTail(response_text) ==
    LET t1 == Strip(response_text)
        t2 == IF StartsWith(t1, <<Fence, JsonWord>>) THEN Drop(t1, 2) ELSE t1
        t3 == IF StartsWith(t2, <<Fence>>) THEN Drop(t2, 1) ELSE t2
    IN Strip(t3)

\* "Clean the response - remove markdown code blocks if present"
CleanResponse(response_text) ==
    LET t1 == Strip(response_text)
        t2 == IF StartsWith(t1, <<Fence, JsonWord>>) THEN Drop(t1, 2) ELSE t1
        t3 == IF StartsWith(t2, <<Fence>>) THEN Drop(t2, 1) ELSE t2
        t4 == IF EndsWith(t3, <<Fence>>) THEN SubSeq(t3, 1, Len(t3) - 1) ELSE t3
    IN Strip(t4)

\* json.loads: white space around one JSON text is allowed, anything else
\* raises JSONDecodeError.
JsonParses(text) == Len(Strip(text)) = 1 /\ Strip(text)[1] \in JsonTexts
JsonLoads(text) == JsonValue(Strip(text)[1])

\* dict.get(key, default)
DictGet(d, key, default) == IF key \in DOMAIN d THEN d[key] ELSE default

\* query.replace(' ', '+')
ReplaceSpaces(query) == [i \in DOMAIN query |-> IF query[i] = Space THEN "+" ELSE query[i]]

Thumbnail == "https://img.youtube.com/vi/dQw4w9WgXcQ/maxresdefault.jpg"

MakeVideo(query) ==
    [title |-> <<"Video: ", query>>,
     url |-> <<"https://www.youtube.com/results?search_query=", ReplaceSpaces(query)>>,
     thumbnail |-> Thumbnail]

\* A plausible slip: the loop over the queries keeps only the first.
VideosForFirstOnly(lesson_data) ==
    LET queries == DictGet(lesson_data, "video_queries", <<>>)
    IN [i \in 1..(IF Len(queries) > 0 THEN 1 ELSE 0) |-> MakeVideo(queries[i])]

\* for query in lesson_data.get('video_queries', []): videos.append({...})
VideosFor(lesson_data) ==
    LET queries == DictGet(lesson_data, "video_queries", <<>>)
    IN [i \in 1..Len(queries) |-> MakeVideo(queries[i])]

\* uuid4() for the i-th lesson and the i-th quiz made in the request that makes
\* the object numbered base: values no other object carries.
LessonId(base, i) == base * 100 + i
QuizId(base, i) == base * 100 + 50 + i

MakeLesson(base, i, lesson_data) ==
    [id |-> LessonId(base, i),
     title |-> DictGet(lesson_data, "title", "Untitled Lesson"),
     content |-> DictGet(lesson_data, "content", ""),
     videos |-> VideosFor(lesson_data),
     code_examples |-> DictGet(lesson_data, "code_examples", PyNone)]

MakeQuiz(base, i, quiz_data) ==
    [id |-> QuizId(base, i),
     question |-> DictGet(quiz_data, "question", ""),
     options |-> DictGet(quiz_data, "options", <<>>),
     correct_answer |-> DictGet(quiz_data, "correct_answer", ""),
     explanation |-> DictGet(quiz_data, "explanation", "")]

\* The outcome of the external call: it raises, or it returns a text.
LlmFails == [ok |-> FALSE, text |-> <<>>]
LlmReturns(text) == [ok |-> TRUE, text |-> text]

\* The HTTPException the outer handler raises around the one it caught.
GenerationError(detail) ==
    [ok |-> FALSE, status |-> 500, detail |-> "Failed to generate course: " \o detail,
     content |-> <<>>]

\* A plausible slip: text that does not parse is taken for an empty payload.
generate_course_with_llm_lenient(topic, llm, base) ==
    IF ~llm.ok THEN GenerationError("service error")
    ELSE [ok |-> TRUE, status |-> 200, detail |-> "",
          content |-> [title |-> "Course: " \o topic,
                       description |-> "A comprehensive course about " \o topic,
                       lessons |-> <<>>, quizzes |-> <<>>]]

\* generate_course_with_llm: one call of the service, then cleaning, parsing
\* and conversion; every failure leaves as HTTPException(500).
generate_course_with_llm(topic, llm, base) ==
    IF ~llm.ok THEN GenerationError("service error")
    ELSE LET response_text == CleanResponse(llm.text)
         IN IF ~JsonParses(response_text)                          \* JSONDecodeError
            THEN GenerationError("500: Failed to generate course content - invalid JSON response")
            ELSE IF ~IsJsonObject(Strip(response_text)[1])          \* a list has no keys()
            THEN GenerationError("500: Failed to process course content")
            ELSE LET course_data == JsonLoads(response_text)
                     lessons_data == DictGet(course_data, "lessons", <<>>)
                     quizzes_data == DictGet(course_data, "quizzes", <<>>)
                 IN [ok |-> TRUE, status |-> 200, detail |-> "",
                     content |->
                       [title |-> DictGet(course_data, "title", "Course: " \o topic),
                        description |-> DictGet(course_data, "description",
                                                "A comprehensive course about " \o topic),
                        lessons |-> [i \in 1..Len(lessons_data) |->
                                        MakeLesson(base, i, lessons_data[i])],
                        quizzes |-> [i \in 1..Len(quizzes_data) |->
                                        MakeQuiz(base, i, quizzes_data[i])]]]

----------------------------------------------------------------------------
(* Course endpoints *)

MaxCourses == 2
MaxResults == 2
MaxSingle == 1
MaxAnswers == 2

Topics == {"python", "rust"}
AnswerOptions == {"A", "B"}

\* datetime.isoformat() and datetime.fromisoformat()
IsoFormat(dt) == <<"iso", dt>>
FromIsoFormat(text) == text[2]

Unauthorized(op) == Failure(op, 401, "Authentication required", None, 0, 0, 0)

CourseIdsStored == {courses[i].id : i \in 1..Len(courses)}

\* uuid4() for a new Course: an identifier no stored course carries.
NewCourseId == CHOOSE n \in 1..(Len(courses) + 1) : n \notin CourseIdsStored

generate_course(topic, cred, llm) ==
    LET user_id == get_current_user(cred, now)
        req == [topic |-> topic]
    IN IF user_id = None
       THEN /\ resp' = Answering(req, Unauthorized("generate"))
            /\ UNCHANGED lastGenerated
       ELSE LET id == NewCourseId
                generated == generate_course_with_llm(topic, llm, id)
            IN IF ~generated.ok
               THEN /\ resp' = [Answering(req, Failure("generate", generated.status,
                                                       generated.detail, user_id, 0, 0, 1))
                                      EXCEPT !.llm = llm]
                    /\ UNCHANGED lastGenerated
               ELSE LET course == [id |-> id,
                                   user_id |-> user_id,
                                   topic |-> topic,
                                   title |-> generated.content.title,
                                   description |-> generated.content.description,
                                   lessons |-> generated.content.lessons,
                                   quizzes |-> generated.content.quizzes,
                                   created_at |-> now,
                                   completion_status |-> "not_started"]
                    IN /\ resp' = [Answering(req, Response("generate", 200, user_id,
                                                            NoCredentials, course, 0, 0, 1))
                                      EXCEPT !.llm = llm]
                       /\ lastGenerated' = course

GenerateCourse(topic, cred, llm) ==
    /\ generate_course(topic, cred, llm)
    /\ UNCHANGED <<users, courses, quiz_results, now, reg, issued, savedGen>>

\* course.dict() with created_at turned into its ISO string.
CourseDict(course) == [course EXCEPT !.created_at = IsoFormat(course.created_at)]

\* Course(**course_doc) with created_at parsed back.
CourseFromDoc(course_doc) == [course_doc EXCEPT !.created_at = FromIsoFormat(course_doc.created_at)]

SaveCourse(course, cred) ==
    LET user_id == get_current_user(cred, now)
        req == [course_id |-> course.id, user_id |-> course.user_id, title |-> course.title]
    IN /\ IF user_id = None
          THEN /\ resp' = Answering(req, Unauthorized("save"))
               /\ UNCHANGED <<courses, savedGen>>
          ELSE /\ Len(courses) < MaxCourses
               /\ courses' = Append(courses, CourseDict(course))
               /\ savedGen' = IF course = lastGenerated /\ course.user_id = user_id
                              THEN savedGen \cup {course} ELSE savedGen
               /\ resp' = Answering(req,
                                     Response("save", 200, user_id, NoCredentials,
                                              [message |-> "Course saved successfully",
                                               course_id |-> course.id],
                                              0, 1, 0))
       /\ UNCHANGED <<users, quiz_results, now, reg, issued, lastGenerated>>

\* db.courses.find(filter).to_list(): the matching documents in stored order.
RECURSIVE FindAll(_, _)
FindAll(coll, keep) ==
    IF coll = <<>> THEN <<>>
    ELSE IF keep[1] THEN <<Head(coll)>> \o FindAll(Tail(coll), Tail(keep))
    ELSE FindAll(Tail(coll), Tail(keep))

\* A plausible slip: the listing made without its filter on the owner.
GetCoursesUnscoped(cred) ==
    LET user_id == get_current_user(cred, now)
    IN /\ IF user_id = None
          THEN resp' = Unauthorized("list")
          ELSE resp' = Response("list", 200, user_id, NoCredentials,
                                [i \in 1..Len(courses) |-> CourseFromDoc(courses[i])], 1, 0, 0)
       /\ UNCHANGED <<users, courses, quiz_results, now, reg, issued, lastGenerated, savedGen>>

GetCourses(cred) ==
    LET user_id == get_current_user(cred, now)
        docs == FindAll(courses, [i \in 1..Len(courses) |-> courses[i].user_id = user_id])
    IN /\ IF user_id = None
          THEN resp' = Unauthorized("list")
          ELSE resp' = Response("list", 200, user_id, NoCredentials,
                                [i \in 1..Len(docs) |-> CourseFromDoc(docs[i])], 1, 0, 0)
       /\ UNCHANGED <<users, courses, quiz_results, now, reg, issued, lastGenerated, savedGen>>

GetCourse(course_id, cred) ==
    LET user_id == get_current_user(cred, now)
        found == Matching(courses, LAMBDA d : d.id = course_id /\ d.user_id = user_id)
        req == [course_id |-> course_id]
    IN /\ IF user_id = None
          THEN resp' = Answering(req, Unauthorized("get"))
          ELSE IF found = {}
          THEN resp' = Answering(req, Failure("get", 404, "Course not found", user_id, 1, 0, 0))
          ELSE resp' = Answering(req, Response("get", 200, user_id, NoCredentials,
                                               CourseFromDoc(courses[Min(found)]), 1, 0, 0))
       /\ UNCHANGED <<users, courses, quiz_results, now, reg, issued, lastGenerated, savedGen>>

\* [quiz['correct_answer'] for quiz in course_doc['quizzes']]
CorrectAnswers(course_doc) ==
    [i \in 1..Len(course_doc.quizzes) |-> course_doc.quizzes[i].correct_answer]

\* A plausible slip: the answers are counted wherever they occur, not by position.
ScoreAnyPosition(answers, correct_answers) ==
    Cardinality({i \in 1..Len(answers) :
                   \E j \in 1..Len(correct_answers) : answers[i] = correct_answers[j]})

\* sum(1 for i, answer in enumerate(answers)
\*     if i < len(correct_answers) and answer == correct_answers[i])
Score(answers, correct_answers) ==
    Cardinality({i \in 1..Len(answers) :
                   i <= Len(correct_answers) /\ answers[i] = correct_answers[i]})

\* round(x, 2) of the ratio n / d, in hundredths; no ratio of the model lies
\* half way between two hundredths.
RoundHundredths(n, d) == (2 * 100 * n + d) \div (2 * d)

\* A plausible slip: the guard of the division left out.
PercentageUnguarded(score, correct_answers) ==
    IF Len(correct_answers) = 0 THEN [error |-> "ZeroDivisionError"]
    ELSE [value |-> RoundHundredths(score * 100, Len(correct_answers))]

\* round((score / len(correct_answers)) * 100, 2) if correct_answers else 0
Percentage(score, correct_answers) ==
    IF Len(correct_answers) # 0
    THEN [value |-> RoundHundredths(score * 100, Len(correct_answers))]
    ELSE [value |-> 0]

\* A plausible slip: the course is looked up for its owner only.
FindCourseForQuizOwned(course_id, user_id) ==
    Matching(courses, LAMBDA d : d.id = course_id /\ d.user_id = user_id)

\* db.courses.find_one({"id": submission.course_id})
FindCourseForQuiz(course_id, user_id) ==
    Matching(courses, LAMBDA d : d.id = course_id)

\* A plausible slip: the result replaces the one its user already has for the
\* course (an upsert keyed by user and course) when there is one.
RECURSIVE UpsertResult(_, _)
UpsertResult(coll, doc) ==
    IF coll = <<>> THEN <<doc>>
    ELSE IF Head(coll).user_id = doc.user_id /\ Head(coll).course_id = doc.course_id
    THEN <<doc>> \o Tail(coll)
    ELSE <<Head(coll)>> \o UpsertResult(Tail(coll), doc)

\* A plausible slip: the result is attributed to the user the body names.
ResultUserFromBody(submission, user_id) == submission.user_id

\* QuizResult(user_id=user_id, ...): the user the token resolved to.
ResultUser(submission, user_id) == user_id

\* await db.quiz_results.insert_one(result_dict)
InsertResult(coll, doc) == Append(coll, doc)

SubmitQuiz(submission, cred) ==
    LET user_id == get_current_user(cred, now)
        found == FindCourseForQuiz(submission.course_id, user_id)
        req == submission
    IN /\ IF user_id = None
          THEN /\ resp' = Answering(req, Unauthorized("submit"))
               /\ UNCHANGED quiz_results
          ELSE IF found = {}
          THEN /\ resp' = Answering(req, Failure("submit", 404, "Course not found",
                                                 user_id, 1, 0, 0))
               /\ UNCHANGED quiz_results
          ELSE LET course_doc == courses[Min(found)]
                   correct_answers == CorrectAnswers(course_doc)
                   score == Score(submission.answers, correct_answers)
                   result == [id |-> Len(quiz_results) + 1,
                              user_id |-> ResultUser(submission, user_id),
                              course_id |-> submission.course_id,
                              score |-> score,
                              total_questions |-> Len(correct_answers),
                              answers |-> submission.answers,
                              correct_answers |-> correct_answers,
                              submitted_at |-> now]
                   percentage == Percentage(score, correct_answers)
               IN /\ Len(quiz_results) < MaxResults
                  /\ quiz_results' = InsertResult(quiz_results,
                                                  [result EXCEPT !.submitted_at = IsoFormat(now)])
                  /\ IF "error" \in DOMAIN percentage
                     THEN resp' = Answering(req, Failure("submit", 500, percentage.error,
                                                         user_id, 1, 1, 0))
                     ELSE resp' = Answering(req,
                                     Response("submit", 200, user_id, NoCredentials,
                                              [result |-> result,
                                               percentage |-> percentage.value],
                                              1, 1, 0))
       /\ UNCHANGED <<users, courses, now, reg, issued, lastGenerated, savedGen>>

\* A plausible slip: the handler without its authentication check.
GetQuizResultsUnchecked(course_id, cred) ==
    LET user_id == get_current_user(cred, now)
        docs == FindAll(quiz_results,
                        [i \in 1..Len(quiz_results) |->
                           quiz_results[i].course_id = course_id
                           /\ quiz_results[i].user_id = user_id])
    IN /\ resp' = Answering([course_id |-> course_id],
                            Response("results", 200, user_id, NoCredentials,
                                     [i \in 1..Len(docs) |->
                                        [docs[i] EXCEPT !.submitted_at =
                                                          FromIsoFormat(docs[i].submitted_at)]],
                                     1, 0, 0))
       /\ UNCHANGED <<users, courses, quiz_results, now, reg, issued, lastGenerated, savedGen>>

GetQuizResults(course_id, cred) ==
    LET user_id == get_current_user(cred, now)
        docs == FindAll(quiz_results,
                           [i \in 1..Len(quiz_results) |->
                              quiz_results[i].course_id = course_id
                              /\ quiz_results[i].user_id = user_id])
        req == [course_id |-> course_id]
    IN /\ IF user_id = None
          THEN resp' = Answering(req, Unauthorized("results"))
          ELSE resp' = Answering(req,
                          Response("results", 200, user_id, NoCredentials,
                                   [i \in 1..Len(docs) |->
                                      [docs[i] EXCEPT !.submitted_at =
                                                        FromIsoFormat(docs[i].submitted_at)]],
                                   1, 0, 0))
       /\ UNCHANGED <<users, courses, quiz_results, now, reg, issued, lastGenerated, savedGen>>

----------------------------------------------------------------------------
(* The course endpoints are checked from the state two registrations and    *)
(* three logins leave behind, one token lifetime and a tick after the first *)
(* login: alice and bob are stored, alice holds an expired and a live      *)
(* token and bob a live one.                                                *)

RegisteredUser(id, username) ==
    [id |-> id, username |-> username, email |-> "a@x.org",
     password_hash |-> hash_password("pw1", "s1")]

IssuedAt(user_id, t) == [tok |-> create_token(user_id, t), at |-> t, for |-> user_id]

Init ==
    /\ users = <<RegisteredUser(1, "alice"), RegisteredUser(2, "bob")>>
    /\ courses = <<>>
    /\ quiz_results = <<>>
    /\ now = TokenTtlTicks + 1
    /\ reg = [w \in Workers |-> IdleReg]
    /\ issued = {IssuedAt(1, 0), IssuedAt(1, TokenTtlTicks), IssuedAt(2, TokenTtlTicks + 1)}
    /\ lastGenerated = NoCourse
    /\ savedGen = {}
    /\ resp = Response("none", 0, None, NoCredentials, NoBody, 0, 0, 0)

UserIds == {users[i].id : i \in 1..Len(users)}

\* What a client may send as its bearer credential: nothing, a token it was
\* issued (live or expired), or a live token signed under another key.
Credentials ==
    {NoCredentials}
    \cup {e.tok : e \in issued}
    \cup {[e.tok EXCEPT !.sig = Sign(OtherKey, e.tok.user_id, e.tok.exp)] :
            e \in {x \in issued : x.for = 1 /\ x.at > 0}}

FencedJson(piece) == <<Fence, JsonWord, Space, piece, Space, Fence>>

\* What the external service may answer.
LlmOutcomes ==
    {LlmFails}
    \cup {LlmReturns(text) : text \in
            { <<"J_full">>,
              FencedJson("J_full"),
              <<Space, Fence, Space, "J_sparse", Fence, Space>>,
              <<"J_empty">>,
              <<"J_array">>,
              <<"prose", "J_full">>,
              <<Fence, JsonWord, Space, "J_truncated">> }}

\* The Course bodies a client may save: the course it last generated, as it
\* is, with its title edited, or with another owner written into it.
SaveBodies ==
    IF lastGenerated = NoCourse THEN {}
    ELSE {lastGenerated, [lastGenerated EXCEPT !.title = "Edited"]}
         \cup {[lastGenerated EXCEPT !.user_id = u] : u \in UserIds}

QueryIds == 1..(MaxCourses + 1)

AnswerSeqs == UNION {[1..n -> AnswerOptions] : n \in 0..MaxAnswers}

\* Spec: the store.  Courses are generated, saved, listed and fetched; quizzes
\* are submitted and their results fetched.
Next ==
    \/ \E cred \in Credentials, llm \in {LlmReturns(FencedJson("J_full")), LlmReturns(<<"prose">>)} :
          GenerateCourse("python", cred, llm)
    \/ \E course \in SaveBodies, cred \in Credentials : SaveCourse(course, cred)
    \/ \E cred \in Credentials : GetCourses(cred)
    \/ \E id \in QueryIds, cred \in Credentials : GetCourse(id, cred)
    \/ \E id \in QueryIds, u \in UserIds, answers \in {<<"A", "A">>}, cred \in Credentials :
          /\ SubmitQuiz([course_id |-> id, user_id |-> u, answers |-> answers], cred)
          /\ Len(quiz_results') <= MaxSingle
    \/ \E id \in QueryIds, cred \in Credentials : GetQuizResults(id, cred)

Spec == Init /\ [][Next]_vars

\* SpecGen: generation alone, over every answer of the external service.
NextGen ==
    \E topic \in Topics, cred \in Credentials, llm \in LlmOutcomes :
        GenerateCourse(topic, cred, llm)

SpecGen == Init /\ [][NextGen]_vars

\* SpecQuiz: quiz submission over courses already stored.  The stored
\* collections are ones that generate and save leave behind.
StoredCourse(id, user_id, piece) ==
    LET content == generate_course_with_llm("python", LlmReturns(<<piece>>), id).content
    IN CourseDict([id |-> id, user_id |-> user_id, topic |-> "python",
                   title |-> content.title, description |-> content.description,
                   lessons |-> content.lessons, quizzes |-> content.quizzes,
                   created_at |-> 0, completion_status |-> "not_started"])

StoredCollections ==
    { <<>>,
      <<StoredCourse(1, 2, "J_sparse")>>,
      <<StoredCourse(1, 1, "J_full"), StoredCourse(2, 2, "J_empty")>> }

InitQuiz ==
    /\ users = <<RegisteredUser(1, "alice"), RegisteredUser(2, "bob")>>
    /\ courses \in StoredCollections
    /\ quiz_results = <<>>
    /\ now = TokenTtlTicks + 1
    /\ reg = [w \in Workers |-> IdleReg]
    /\ issued = {IssuedAt(1, 0), IssuedAt(1, TokenTtlTicks), IssuedAt(2, TokenTtlTicks + 1)}
    /\ lastGenerated = NoCourse
    /\ savedGen = {}
    /\ resp = Response("none", 0, None, NoCredentials, NoBody, 0, 0, 0)

NextQuiz ==
    \/ \E id \in QueryIds, u \in UserIds, answers \in AnswerSeqs, cred \in Credentials :
          /\ SubmitQuiz([course_id |-> id, user_id |-> u, answers |-> answers], cred)
          /\ Len(quiz_results') <= MaxSingle
    \/ \E id \in QueryIds, cred \in Credentials : GetQuizResults(id, cred)

SpecQuiz == InitQuiz /\ [][NextQuiz]_vars

\* SpecClean: generation over one JSON text in its three forms, bare, in a
\* json code block and in a plain code block, with white space around the
\* text and around the block.
MaxPad == 1
Pad(n) == [i \in 1..n |-> Space]
Forms == {"bare", "json-block", "block"}

Wrapped(form, piece, before, inner_before, inner_after, after) ==
    CASE form = "bare" -> Pad(before) \o <<piece>> \o Pad(after)
      [] form = "json-block" ->
           Pad(before) \o <<Fence, JsonWord>> \o Pad(inner_before) \o <<piece>>
              \o Pad(inner_after) \o <<Fence>> \o Pad(after)
      [] form = "block" ->
           Pad(before) \o <<Fence>> \o Pad(inner_before) \o <<piece>>
              \o Pad(inner_after) \o <<Fence>> \o Pad(after)

WrappedTexts ==
    {Wrapped(form, piece, a, b, c, d) :
        form \in Forms, piece \in JsonTexts,
        a \in 0..MaxPad, b \in 0..MaxPad, c \in 0..MaxPad, d \in 0..MaxPad}

NextClean ==
    \E text \in WrappedTexts :
        GenerateCourse("python", IssuedAt(1, TokenTtlTicks).tok, LlmReturns(text))

SpecClean == Init /\ [][NextClean]_vars

\* SpecResults: repeated submissions, by both users, over two stored courses,
\* and the fetching of their results.
RepeatedAnswers == {<<>>, <<"B">>, <<"B", "B">>}

InitResults ==
    /\ users = <<RegisteredUser(1, "alice"), RegisteredUser(2, "bob")>>
    /\ courses = <<StoredCourse(1, 1, "J_full"), StoredCourse(2, 2, "J_sparse")>>
    /\ quiz_results = <<>>
    /\ now = TokenTtlTicks + 1
    /\ reg = [w \in Workers |-> IdleReg]
    /\ issued = {IssuedAt(1, 0), IssuedAt(1, TokenTtlTicks), IssuedAt(2, TokenTtlTicks + 1)}
    /\ lastGenerated = NoCourse
    /\ savedGen = {}
    /\ resp = Response("none", 0, None, NoCredentials, NoBody, 0, 0, 0)

NextResults ==
    \/ \E id \in QueryIds, u \in UserIds, answers \in RepeatedAnswers, cred \in Credentials :
          SubmitQuiz([course_id |-> id, user_id |-> u, answers |-> answers], cred)
    \/ \E id \in QueryIds, cred \in Credentials : GetQuizResults(id, cred)

SpecResults == InitResults /\ [][NextResults]_vars

----------------------------------------------------------------------------
(* Claims about the protected endpoints, checked under Spec *)

ProtectedOps == {"generate", "save", "list", "get", "submit", "results"}

\* C4: every protected endpoint, called with no bearer credential or with one
\* that resolves to none, fails with Unauthorized before any read or write of
\* the collections and before any call of the external service.
C4_UnauthorizedFirst ==
    [][(resp'.op \in ProtectedOps /\ resp'.user = None) =>
          /\ resp'.status = 401
          /\ resp'.dbReads = 0 /\ resp'.dbWrites = 0 /\ resp'.llmCalls = 0
          /\ UNCHANGED <<users, courses, quiz_results>>]_vars

C4_Witness ==
    /\ resp.op = "submit" /\ resp.status = 401
    /\ courses # <<>>
    /\ quiz_results # <<>>

SameCourse(a, b) ==
    /\ a.id = b.id /\ a.user_id = b.user_id /\ a.topic = b.topic
    /\ a.title = b.title /\ a.description = b.description
    /\ a.lessons = b.lessons /\ a.quizzes = b.quizzes

\* C7: a generated course that its owner saved is returned equal to the saved
\* one when the owner then fetches it by its identifier, and is NotFound for
\* every other authenticated user, whatever was saved before it.
C7_SaveGetRoundTrip ==
    (resp.op = "get" /\ resp.user # None) =>
       \A g \in savedGen :
          (/\ g.id = resp.req.course_id
           /\ courses[Len(courses)] = CourseDict(g)) =>     \* the last save was g's
             IF resp.user = g.user_id
             THEN resp.status = 200 /\ SameCourse(resp.body, g)
             ELSE resp.status = 404

----------------------------------------------------------------------------
(* Claims about quiz scoring, checked under SpecQuiz *)

\* The number of positions, within the shorter of the two, where they agree.
RECURSIVE PositionalMatches(_, _)
PositionalMatches(a, c) ==
    IF a = <<>> \/ c = <<>> THEN 0
    ELSE (IF Head(a) = Head(c) THEN 1 ELSE 0) + PositionalMatches(Tail(a), Tail(c))

\* The stored course a submission for course_id is scored against, and its
\* correct answers in stored order.
StoredWithId(course_id) == {i \in 1..Len(courses) : courses[i].id = course_id}
CourseScored(course_id) == courses[Min(StoredWithId(course_id))]
AnswerKey(course_id) ==
    LET quizzes == CourseScored(course_id).quizzes
    IN [k \in 1..Len(quizzes) |-> quizzes[k].correct_answer]

\* The last handler to return was submit_quiz, for an authenticated user and
\* a course that is stored.
SubmittedForStored ==
    /\ resp.op = "submit" /\ resp.user # None
    /\ StoredWithId(resp.req.course_id) # {}

\* C5: for a stored course with correct answers C and submitted answers A of
\* any length, submit_quiz raises no error and records score = the number of
\* positions below min(len A, len C) where A and C agree, and
\* total_questions = len C.
C5_PositionalScore ==
    SubmittedForStored =>
       /\ resp.status = 200
       /\ quiz_results # <<>>
       /\ LET recorded == quiz_results[Len(quiz_results)]
              key == AnswerKey(resp.req.course_id)
          IN /\ recorded.answers = resp.req.answers
             /\ recorded.score = PositionalMatches(resp.req.answers, key)
             /\ recorded.total_questions = Len(key)
             /\ resp.body.result.score = recorded.score
             /\ resp.body.result.total_questions = recorded.total_questions

C5_Witness ==
    /\ SubmittedForStored /\ resp.status = 200
    /\ Len(resp.req.answers) > Len(AnswerKey(resp.req.course_id))
    /\ Len(AnswerKey(resp.req.course_id)) > 0
    /\ resp.body.result.score = 1

\* C6: for a stored course with an empty quiz list, submit_quiz with any
\* answers succeeds with percentage 0, score 0 and total_questions 0.
C6_EmptyQuizPercentageZero ==
    (SubmittedForStored /\ CourseScored(resp.req.course_id).quizzes = <<>>) =>
       /\ resp.status = 200
       /\ resp.body.percentage = 0
       /\ resp.body.result.score = 0
       /\ resp.body.result.total_questions = 0

C6_Witness ==
    /\ SubmittedForStored /\ resp.status = 200
    /\ CourseScored(resp.req.course_id).quizzes = <<>>
    /\ resp.req.answers # <<>>
    /\ resp.body.percentage = 0

\* C10: an authenticated submit_quiz fails with NotFound exactly when no
\* course with the submitted course_id is stored, whoever owns the course,
\* and then no QuizResult is persisted and no collection is modified.
C10_NotFoundIffNoCourse ==
    [][(resp'.op = "submit" /\ resp'.user # None) =>
          /\ resp'.status = 404 <=> StoredWithId(resp'.req.course_id) = {}
          /\ resp'.status = 404 =>
               /\ resp'.dbWrites = 0
               /\ UNCHANGED <<users, courses, quiz_results>>]_vars

C10_Witness ==
    /\ resp.op = "submit" /\ resp.status = 404
    /\ courses # <<>>

----------------------------------------------------------------------------
(* Claims about generation, checked under SpecGen *)

\* What is left of a text between its code-fence markers and white space.
Payload(text) == SelectSeq(text, LAMBDA piece : piece \notin {Fence, JsonWord, Space})
IsOneJsonText(text) == Len(Payload(text)) = 1 /\ Payload(text)[1] \in JsonTexts

\* The last handler to return was generate, and the external service had
\* answered it with a text.
GeneratedFromText ==
    /\ resp.op = "generate" /\ resp.user # None
    /\ resp.llm # NoLlm /\ resp.llm.ok

\* C8: when the response, its code-fence markers stripped, does not parse as
\* JSON, Generate fails with a 500-class error, calls the service once and
\* leaves the collections unchanged.
C8_UnparseableFails ==
    [][(GeneratedFromText' /\ ~IsOneJsonText(resp'.llm.text)) =>
          /\ resp'.status \in 500..599
          /\ resp'.llmCalls = 1
          /\ resp'.dbReads = 0 /\ resp'.dbWrites = 0
          /\ UNCHANGED <<users, courses, quiz_results, lastGenerated>>]_vars

C8_Witness ==
    /\ GeneratedFromText /\ ~IsOneJsonText(resp.llm.text)
    /\ resp.status = 500
    /\ lastGenerated # NoCourse

\* The queries a lesson entry of the payload names, none when it has no
\* video_queries field.
QueriesOf(lesson_data) ==
    IF "video_queries" \in DOMAIN lesson_data THEN lesson_data.video_queries ELSE <<>>

\* C9: for a well-formed payload every generated lesson has one Video per
\* entry of that lesson's video_queries, in the same order; a lesson entry
\* without video_queries yields an empty video list, and generation succeeds.
C9_VideoPerQuery ==
    (/\ GeneratedFromText
     /\ IsOneJsonText(resp.llm.text)
     /\ IsJsonObject(Payload(resp.llm.text)[1])) =>
       LET data == JsonValue(Payload(resp.llm.text)[1])
           entries == IF "lessons" \in DOMAIN data THEN data.lessons ELSE <<>>
       IN /\ resp.status = 200
          /\ Len(resp.body.lessons) = Len(entries)
          /\ \A i \in 1..Len(entries) :
                LET videos == resp.body.lessons[i].videos
                    queries == QueriesOf(entries[i])
                IN /\ Len(videos) = Len(queries)
                   /\ \A k \in 1..Len(queries) :
                         videos[k].title = <<"Video: ", queries[k]>>

C9_Witness ==
    /\ GeneratedFromText /\ resp.status = 200
    /\ \E i \in 1..Len(resp.body.lessons) : Len(resp.body.lessons[i].videos) = 2
    /\ \E i \in 1..Len(resp.body.lessons) : resp.body.lessons[i].videos = <<>>

----------------------------------------------------------------------------
(* Claims about stored quiz results, checked under SpecResults *)

ResultIds(coll) == {coll[i].id : i \in 1..Len(coll)}

\* C11: a successful submit_quiz adds exactly one new QuizResult document and
\* leaves every stored Course, every stored User and every QuizResult stored
\* before unchanged; a repeated submission by the same user for the same
\* course adds a further result and overwrites none.
C11_SubmitAddsOneResult ==
    [][(resp'.op = "submit" /\ resp'.status = 200) =>
          /\ Len(quiz_results') = Len(quiz_results) + 1
          /\ SubSeq(quiz_results', 1, Len(quiz_results)) = quiz_results
          /\ quiz_results'[Len(quiz_results')].id \notin ResultIds(quiz_results)
          /\ UNCHANGED <<users, courses>>]_vars

C11_Witness ==
    /\ resp.op = "submit" /\ resp.status = 200
    /\ Len(quiz_results) = 2
    /\ quiz_results[1].user_id = quiz_results[2].user_id
    /\ quiz_results[1].course_id = quiz_results[2].course_id
    /\ quiz_results[1].answers # quiz_results[2].answers

----------------------------------------------------------------------------
(* Claims about what the retrieval endpoints return, checked under Spec *)

\* The k-th least element of a set of positions.
KthIndex(S, k) == CHOOSE i \in S : Cardinality({j \in S : j < i}) = k - 1

CoursesOwnedBy(u) == {i \in 1..Len(courses) : courses[i].user_id = u}
ResultsOf(course_id, u) ==
    {i \in 1..Len(quiz_results) :
        quiz_results[i].course_id = course_id /\ quiz_results[i].user_id = u}

\* C12: for an authenticated user u, listing courses returns exactly the
\* stored courses whose owner identifier is u, in stored order; get-course
\* returns a course only when a stored course has that id and owner u, and is
\* NotFound otherwise; get-quiz-results returns exactly the stored results of
\* that course whose user identifier is u.  No returned document carries
\* another user's identifier.
C12_RetrievalScopedToOwner ==
    /\ (resp.op = "list" /\ resp.user # None) =>
          /\ resp.status = 200
          /\ Len(resp.body) = Cardinality(CoursesOwnedBy(resp.user))
          /\ \A k \in 1..Len(resp.body) :
                /\ resp.body[k].user_id = resp.user
                /\ CourseDict(resp.body[k]) = courses[KthIndex(CoursesOwnedBy(resp.user), k)]
    /\ (resp.op = "get" /\ resp.user # None) =>
          LET owned == {i \in CoursesOwnedBy(resp.user) : courses[i].id = resp.req.course_id}
          IN IF owned = {}
             THEN resp.status = 404 /\ resp.body = NoBody
             ELSE /\ resp.status = 200
                  /\ resp.body.user_id = resp.user
                  /\ \E i \in owned : CourseDict(resp.body) = courses[i]
    /\ (resp.op = "results" /\ resp.user # None) =>
          LET mine == ResultsOf(resp.req.course_id, resp.user)
          IN /\ resp.status = 200
             /\ Len(resp.body) = Cardinality(mine)
             /\ \A k \in 1..Len(resp.body) :
                   /\ resp.body[k].user_id = resp.user
                   /\ [resp.body[k] EXCEPT !.submitted_at = IsoFormat(@)]
                        = quiz_results[KthIndex(mine, k)]

C12_Witness ==
    /\ resp.op = "list" /\ resp.status = 200
    /\ Len(resp.body) = 1
    /\ Len(courses) = 2
    /\ quiz_results # <<>>

\* C13: at every reachable state, after any sequence of save operations, no
\* two documents of the courses collection have the same id.
C13_CourseIdsUnique ==
    \A i, j \in 1..Len(courses) : i # j => courses[i].id # courses[j].id

----------------------------------------------------------------------------
(* Claims about the cleaning step, checked under SpecClean *)

CourseContent(course) ==
    [title |-> course.title, description |-> course.description,
     lessons |-> course.lessons, quizzes |-> course.quizzes]

\* C14: for a JSON text J, the cleaning step maps the bare J, J in a json
\* code block and J in a plain code block, with any white space around, to
\* the same trimmed J, and the three forms yield the same course content
\* (or, for a J that is no object, the same failure).
C14_FencedFormsCleanAlike ==
    (GeneratedFromText /\ resp.llm.text \in WrappedTexts) =>
       LET J == Payload(resp.llm.text)[1]
           bare == generate_course_with_llm(resp.req.topic, LlmReturns(<<J>>), NewCourseId)
       IN /\ CleanResponse(resp.llm.text) = <<J>>
          /\ resp.status = bare.status
          /\ resp.status = 200 => CourseContent(resp.body) = bare.content
          /\ resp.status # 200 => resp.detail = bare.detail

C14_Witness ==
    /\ GeneratedFromText /\ resp.status = 200
    /\ resp.llm.text = Wrapped("block", "J_full", 1, 0, 1, 1)

----------------------------------------------------------------------------
(* Claims about the attribution and the shape of quiz results, checked      *)
(* under SpecResults                                                        *)

\* C15: every QuizResult submit_quiz creates carries the user identifier the
\* bearer token resolved to, never the user_id field of the request body; it
\* is stored under the authenticated submitter, and get-quiz-results hands a
\* user only the results stored under that user.
C15_ResultOwnedBySubmitter ==
    /\ (resp.op = "submit" /\ resp.status = 200) =>
          /\ quiz_results[Len(quiz_results)].user_id = resp.user
          /\ resp.body.result.user_id = resp.user
    /\ (resp.op = "results" /\ resp.user # None) =>
          /\ \A k \in 1..Len(resp.body) : resp.body[k].user_id = resp.user
          /\ Len(resp.body) = Cardinality(ResultsOf(resp.req.course_id, resp.user))

C15_Witness ==
    /\ resp.op = "submit" /\ resp.status = 200
    /\ resp.req.user_id # resp.user
    /\ quiz_results[Len(quiz_results)].user_id = resp.user

\* C16: at every reachable state every stored QuizResult has
\* 0 <= score <= total_questions, score <= the number of submitted answers,
\* and as many correct_answers as total_questions.
C16_ResultWellFormed ==
    \A i \in 1..Len(quiz_results) :
        LET r == quiz_results[i]
        IN /\ 0 <= r.score
           /\ r.score <= r.total_questions
           /\ r.score <= Len(r.answers)
           /\ Len(r.correct_answers) = r.total_questions

C16_Witness ==
    \E i \in 1..Len(quiz_results) :
        /\ Len(quiz_results[i].answers) > quiz_results[i].total_questions
        /\ quiz_results[i].score = quiz_results[i].total_questions
        /\ quiz_results[i].score > 0

====
